---- MODULE Spec2Model ----
(***************************************************************************)
(* Model of src/main.rs: the tile partition loop, the worker threads       *)
(* (thread_worker), the shared colour buffer behind its mutex, the         *)
(* completion channel, and the coordinator loop of main.                   *)
(*                                                                         *)
(* The render parameters (BUFFER_WIDTH, BUFFER_HEIGHT, THREAD_WIDTH,       *)
(* THREAD_HEIGHT, THREAD_COUNT, SAMPLE_COUNT) are constants of main; here  *)
(* they are state fixed by Init, drawn from bounded sets, so that every    *)
(* property is checked for all configurations within the bounds.           *)
(***************************************************************************)
EXTENDS Integers, Sequences, FiniteSets

\* ------------------------------------------------------------- bounds
MaxWidth == 4
MaxHeight == 3
MaxTile == 3
MaxThreads == 2
\* most tiles of a configuration whose render is explored
MaxTiles == 4
\* the sample coordinates explored are the Gaussian integers of this size
MaxCoord == 2

\* ------------------------------------------------------------- constants
PALETTE_LEN == 16
MAX_ITERATIONS == 250
MAX_LENGTH == 2

VARIABLES
    BUFFER_WIDTH, BUFFER_HEIGHT,    \* canvas size
    THREAD_WIDTH, THREAD_HEIGHT,    \* nominal tile size
    THREAD_COUNT,                   \* number of worker slots
    SAMPLE_COUNT,                   \* samples per pixel
    pc,                             \* position of main
    color_buffer,                   \* the Vec<Color> inside the mutex, row major
    lock_holders,                   \* threads holding the mutex: 0 is main, k > 0 is worker k
    threads_descryptors,            \* Vec<ThreadDescryptor>
    next_thread,                    \* index of the next descriptor to dispatch
    threads,                        \* Vec<JoinHandle>: the worker each handle refers to
    workers,                        \* every thread spawned so far, in spawn order
    channel,                        \* messages sent and not yet received
    finished_threads,               \* signals received by main
    reported,                       \* values handed to print_progress, in order
    joined,                         \* handles joined so far
    image,                          \* the buffer as save_image read it (<<>> before)
    writes,                         \* how often each cell of the buffer was stored to
    pos, temp, iterations,          \* the escape-time loop of one sample (lines 201-209)
    orbit                           \* every value temp has held, in order

config == <<BUFFER_WIDTH, BUFFER_HEIGHT, THREAD_WIDTH, THREAD_HEIGHT, THREAD_COUNT, SAMPLE_COUNT>>

vars == <<BUFFER_WIDTH, BUFFER_HEIGHT, THREAD_WIDTH, THREAD_HEIGHT, THREAD_COUNT, SAMPLE_COUNT,
          pc, color_buffer, lock_holders, threads_descryptors, next_thread, threads,
          workers, channel, finished_threads, reported, joined, image, writes,
          pos, temp, iterations, orbit>>

\* The state of the escape-time loop.
kernel == <<pos, temp, iterations, orbit>>

\* ------------------------------------------------------------- helpers of main.rs

clamp(value, lo, hi) ==
    IF value < lo THEN lo
    ELSE IF value > hi THEN hi
    ELSE value

divide_roundup(numinator, denominator) ==
    IF numinator % denominator = 0
    THEN numinator \div denominator
    ELSE numinator \div denominator + 1

\* Variant of min: the first argument, whatever the second.
MinFirst(a, b) == a

min(a, b) == IF a < b THEN a ELSE b

\* Color::new(): all channels 0.0 (alpha 0.0, which no palette entry has).
ColorNew == 0

\* A colour no arithmetic on palette entries yields: 0.0/0.0 in every channel.
ColorNaN == 0 - 1

\* The palette entry a sample of canvas pixel (px, py) selects, iterations % 16.
\* The random jitter is fixed per pixel: every sample of a pixel selects the
\* same entry. Palette entries are numbered from 1 (alpha 1.0, never ColorNew).
SampleColor(px, py, width) == ((py * width + px) % PALETTE_LEN) + 1

\* pixel_color after the sampling loop and divide(sample_count): the mean of
\* sample_count equal samples, or 0.0/0.0 when no sample was taken.
PixelColor(px, py, desc) ==
    IF desc.sample_count = 0
    THEN ColorNaN
    ELSE SampleColor(px, py, desc.color_buffer_size.x)

\* ------------------------------------------------------------- partition loop

\* Variant of ThreadSize: the nominal extent, never cut at the canvas edge.
ThreadSizeMutant(nominal, max_extent) == nominal

\* clamp(THREAD_WIDTH, 0, max_width-1), and the same for the height.
ThreadSize(nominal, max_extent) == clamp(nominal, 0, max_extent - 1)

NewDesc(x, y) ==
    LET max_width == BUFFER_WIDTH - x * THREAD_WIDTH
        max_height == BUFFER_HEIGHT - y * THREAD_HEIGHT
    IN  [offset |-> [x |-> x * THREAD_WIDTH, y |-> y * THREAD_HEIGHT],
         thread_size |-> [x |-> ThreadSize(THREAD_WIDTH, max_width),
                          y |-> ThreadSize(THREAD_HEIGHT, max_height)],
         color_buffer_size |-> [x |-> BUFFER_WIDTH, y |-> BUFFER_HEIGHT],
         sample_count |-> SAMPLE_COUNT]

\* The descriptors pushed by the two nested loops, row by row.
Descryptors(rows, cols) ==
    [i \in 1..(rows * cols) |-> NewDesc((i - 1) % cols, (i - 1) \div cols)]

\* ------------------------------------------------------------- Init

\* SAMPLE_COUNT only matters as zero or not: the samples of a pixel are equal.
SampleCounts == {0, 1}

\* The number of descriptors the partition loop builds (0 when it panics).
TileCount ==
    IF THREAD_WIDTH = 0 \/ THREAD_HEIGHT = 0
    THEN 0
    ELSE divide_roundup(BUFFER_HEIGHT, THREAD_HEIGHT) * divide_roundup(BUFFER_WIDTH, THREAD_WIDTH)

\* Lines 204-205: iterations = 0 and temp = 0 + 0i.
InitKernel ==
    /\ temp = [r |-> 0, i |-> 0]
    /\ iterations = 0
    /\ orbit = <<temp>>

\* Every configuration within the bounds, at the first statement of main.
InitPartition ==
    /\ BUFFER_WIDTH \in 0..MaxWidth
    /\ BUFFER_HEIGHT \in 0..MaxHeight
    /\ THREAD_WIDTH \in 0..MaxTile
    /\ THREAD_HEIGHT \in 0..MaxTile
    /\ THREAD_COUNT \in 0..MaxThreads
    /\ SAMPLE_COUNT \in SampleCounts
    /\ pc = "start"
    /\ color_buffer = [i \in 1..(BUFFER_WIDTH * BUFFER_HEIGHT) |-> ColorNew]
    /\ lock_holders = {}
    /\ threads_descryptors = <<>>
    /\ next_thread = 0
    /\ threads = <<>>
    /\ workers = <<>>
    /\ channel = <<>>
    /\ finished_threads = 0
    /\ reported = <<0>>
    /\ joined = 0
    /\ image = <<>>
    /\ writes = [i \in 1..(BUFFER_WIDTH * BUFFER_HEIGHT) |-> 0]
    /\ pos = [r |-> 0, i |-> 0]
    /\ InitKernel

\* The configurations whose render is explored: at most MaxTiles tiles.
Init ==
    /\ InitPartition
    /\ TileCount <= MaxTiles

\* ------------------------------------------------------------- main

\* Lines 248-263. divide_roundup panics on a zero denominator; the inner
\* bound is only evaluated when the outer loop runs at least once.
FillDescryptors ==
    /\ pc = "start"
    /\ UNCHANGED <<config, kernel, writes, color_buffer, lock_holders, next_thread, threads, workers,
                   channel, finished_threads, reported, joined, image>>
    /\ IF THREAD_HEIGHT = 0
       THEN /\ pc' = "panicked"
            /\ UNCHANGED threads_descryptors
       ELSE LET rows == divide_roundup(BUFFER_HEIGHT, THREAD_HEIGHT)
            IN  IF rows > 0 /\ THREAD_WIDTH = 0
                THEN /\ pc' = "panicked"
                     /\ UNCHANGED threads_descryptors
                ELSE /\ threads_descryptors' =
                            IF rows = 0 THEN <<>>
                            ELSE Descryptors(rows, divide_roundup(BUFFER_WIDTH, THREAD_WIDTH))
                     /\ pc' = "spawn"

\* Variant of NewWorker: the descriptor's index handed over as the id.
NewWorkerTileId(desc_index, id) ==
    [desc |-> threads_descryptors[desc_index + 1],
     tile |-> desc_index,
     id |-> desc_index,
     pc |-> "render",
     temp_color_buffer |-> <<>>,
     sent |-> 0,
     acquired |-> 0]

\* thread::spawn(move || thread_worker(color_buffer_clone, descryptor, id, sender_clone))
NewWorker(desc_index, id) ==
    [desc |-> threads_descryptors[desc_index + 1],
     tile |-> desc_index,
     id |-> id,
     pc |-> "render",
     temp_color_buffer |-> <<>>,
     sent |-> 0,
     acquired |-> 0]

\* Lines 270-276: one iteration of the initial spawn loop, or its end.
SpawnInitial ==
    /\ pc = "spawn"
    /\ UNCHANGED <<config, kernel, writes, color_buffer, lock_holders, threads_descryptors, channel,
                   finished_threads, reported, joined, image>>
    /\ LET i == Len(threads)
       IN  IF i < min(Len(threads_descryptors), THREAD_COUNT)
           THEN /\ workers' = Append(workers, NewWorker(i, i))
                /\ threads' = Append(threads, Len(workers) + 1)
                /\ next_thread' = next_thread + 1
                /\ pc' = pc
           ELSE /\ pc' = "loop"
                /\ UNCHANGED <<workers, threads, next_thread>>

\* Variant of LoopCond: stop after the first wave of workers.
LoopCondEarly(finished, len) == finished < min(len, THREAD_COUNT)

\* Variant of LoopCond: wait for one signal more than there are tiles.
LoopCondLate(finished, len) == finished <= len

\* while finished_threads < threads_descryptors.len()
LoopCond(finished, len) == finished < len

\* Variant of NextDesc: index the descriptors by finished_threads.
NextDescMutant(next, finished) == finished

\* Variant of NextDesc: the descriptor dispatched last.
NextDescStale(next, finished) == next - 1

\* threads_descryptors[next_thread]
NextDesc(next, finished) == next

\* Variant of Progress: computed before finished_threads is incremented.
ProgressStale(finished, len) == ((finished - 1) * 100) \div len

\* finished_threads*100/threads_descryptors.len()
Progress(finished, len) == (finished * 100) \div len

\* Lines 279-292: one iteration of the receive loop. recv() blocks while the
\* channel is empty (main keeps a Sender, so it never reports disconnection).
MainRecv ==
    /\ pc = "loop"
    /\ LoopCond(finished_threads, Len(threads_descryptors))
    /\ channel # <<>>
    /\ LET finished_id == Head(channel)
       IN  /\ channel' = Tail(channel)
           /\ finished_threads' = finished_threads + 1
           /\ reported' = Append(reported,
                                 Progress(finished_threads + 1, Len(threads_descryptors)))
           /\ IF next_thread < Len(threads_descryptors)
              THEN /\ workers' = Append(workers,
                                        NewWorker(NextDesc(next_thread, finished_threads + 1),
                                                  finished_id))
                   /\ threads' = [threads EXCEPT ![finished_id + 1] = Len(workers) + 1]
                   /\ next_thread' = next_thread + 1
              ELSE UNCHANGED <<workers, threads, next_thread>>
    /\ UNCHANGED <<config, kernel, writes, pc, color_buffer, lock_holders, threads_descryptors, joined, image>>

MainLoopExit ==
    /\ pc = "loop"
    /\ ~LoopCond(finished_threads, Len(threads_descryptors))
    /\ pc' = "join"
    /\ UNCHANGED <<config, kernel, writes, color_buffer, lock_holders, threads_descryptors, next_thread,
                   threads, workers, channel, finished_threads, reported, joined, image>>

\* Worker k ended in a panic; "poisoned" when it held the MutexGuard, which
\* poisons the mutex as the guard is dropped during unwinding.
Failed(k) == workers[k].pc \in {"panicked", "poisoned"}

Ended(k) == workers[k].pc = "done" \/ Failed(k)

\* Some thread panicked while it held the guard.
Poisoned == \E k \in DOMAIN workers : workers[k].pc = "poisoned"

\* Lines 296-298: join() returns once the thread the handle refers to has
\* ended, with Err when it panicked; unwrap() then panics.
MainJoin ==
    /\ pc = "join"
    /\ UNCHANGED <<config, kernel, writes, color_buffer, lock_holders, threads_descryptors, next_thread,
                   threads, workers, channel, finished_threads, reported, image>>
    /\ IF joined < Len(threads)
       THEN /\ Ended(threads[joined + 1])
            /\ IF Failed(threads[joined + 1])
               THEN pc' = "panicked" /\ UNCHANGED joined
               ELSE pc' = pc /\ joined' = joined + 1
       ELSE /\ pc' = "lock"
            /\ UNCHANGED joined

\* Line 303: color_buffer.lock().unwrap(); lock() gives Err on a poisoned mutex.
MainLock ==
    /\ pc = "lock"
    /\ lock_holders = {}
    /\ IF Poisoned
       THEN pc' = "panicked" /\ UNCHANGED lock_holders
       ELSE pc' = "save" /\ lock_holders' = {0}
    /\ UNCHANGED <<config, kernel, writes, color_buffer, threads_descryptors, next_thread, threads, workers,
                   channel, finished_threads, reported, joined, image>>

\* Lines 304-306: save_image reads the buffer; the guard is dropped at the end of main.
MainSave ==
    /\ pc = "save"
    /\ image' = color_buffer
    /\ lock_holders' = lock_holders \ {0}
    /\ pc' = "done"
    /\ UNCHANGED <<config, kernel, writes, color_buffer, threads_descryptors, next_thread, threads, workers,
                   channel, finished_threads, reported, joined>>

\* ------------------------------------------------------------- thread_worker

TileCells(desc) ==
    {c \in (0..(desc.thread_size.x - 1)) \X (0..(desc.thread_size.y - 1)) : TRUE}

\* Lines 187-215: fill the private buffer, temp_color_buffer[y * thread_size.x + x].
Rendered(desc) ==
    [i \in 1..(desc.thread_size.x * desc.thread_size.y) |->
        PixelColor(((i - 1) % desc.thread_size.x) + desc.offset.x,
                   ((i - 1) \div desc.thread_size.x) + desc.offset.y,
                   desc)]

\* Variant of WorkerRender: the pixels are stored straight into the shared buffer.
WorkerRenderShared(k) ==
    /\ workers[k].pc = "render"
    /\ workers' = [workers EXCEPT ![k].pc = "lock",
                                  ![k].temp_color_buffer = Rendered(workers[k].desc)]
    /\ color_buffer' =
           [i \in DOMAIN color_buffer |->
               LET px == (i - 1) % BUFFER_WIDTH
                   py == (i - 1) \div BUFFER_WIDTH
                   d == workers[k].desc
               IN  IF /\ d.offset.x <= px /\ px < d.offset.x + d.thread_size.x
                      /\ d.offset.y <= py /\ py < d.offset.y + d.thread_size.y
                   THEN PixelColor(px, py, d)
                   ELSE color_buffer[i]]
    /\ UNCHANGED <<config, kernel, writes, pc, lock_holders, threads_descryptors, next_thread,
                   threads, channel, finished_threads, reported, joined, image>>

WorkerRender(k) ==
    /\ workers[k].pc = "render"
    /\ workers' = [workers EXCEPT ![k].pc = "lock",
                                  ![k].temp_color_buffer = Rendered(workers[k].desc)]
    /\ UNCHANGED <<config, kernel, writes, pc, color_buffer, lock_holders, threads_descryptors, next_thread,
                   threads, channel, finished_threads, reported, joined, image>>

\* Variant of MutexFree: a lock that never makes its caller wait.
MutexFreeMutant(holders) == TRUE

\* Mutex::lock returns only when no other thread holds the guard.
MutexFree(holders) == holders = {}

\* Line 218: color_buffer.lock().unwrap(); lock() gives Err on a poisoned
\* mutex and unwrap() panics, dropping the guard it was handed.
WorkerLock(k) ==
    /\ workers[k].pc = "lock"
    /\ MutexFree(lock_holders)
    /\ IF Poisoned
       THEN /\ workers' = [workers EXCEPT ![k].pc = "panicked"]
            /\ UNCHANGED lock_holders
       ELSE /\ lock_holders' = lock_holders \cup {k}
            /\ workers' = [workers EXCEPT ![k].pc = "copy", ![k].acquired = @ + 1]
    /\ UNCHANGED <<config, kernel, writes, pc, color_buffer, threads_descryptors, next_thread,
                   threads, channel, finished_threads, reported, joined, image>>

\* Variant of CbIndex: the tile's width as the row stride.
CbIndexStride(desc, x, y) == (y + desc.offset.y) * desc.thread_size.x + (x + desc.offset.x)

\* Variant of CbIndex: the tile's offset left out.
CbIndexMutant(desc, x, y) == y * desc.color_buffer_size.x + x

\* (y+desc.offset.y) * desc.color_buffer_size.x + (x+desc.offset.x)
CbIndex(desc, x, y) == (y + desc.offset.y) * desc.color_buffer_size.x + (x + desc.offset.x)

\* Variant of Copied: the copy loop stops one row short.
CopiedShort(cb, desc, temp_buffer) ==
    [i \in DOMAIN cb |->
        IF \E c \in TileCells(desc) :
               c[2] < desc.thread_size.y - 1 /\ CbIndex(desc, c[1], c[2]) + 1 = i
        THEN LET c == CHOOSE c \in TileCells(desc) : CbIndex(desc, c[1], c[2]) + 1 = i
             IN  temp_buffer[c[2] * desc.thread_size.x + c[1] + 1]
        ELSE cb[i]]

\* Lines 219-223: the copy loop, as the buffer it leaves behind.
Copied(cb, desc, temp_buffer) ==
    [i \in DOMAIN cb |->
        IF \E c \in TileCells(desc) : CbIndex(desc, c[1], c[2]) + 1 = i
        THEN LET c == CHOOSE c \in TileCells(desc) : CbIndex(desc, c[1], c[2]) + 1 = i
             IN  temp_buffer[c[2] * desc.thread_size.x + c[1] + 1]
        ELSE cb[i]]

\* The stores of the copy loop, counted per cell: one store for every (x, y)
\* of the tile, at index CbIndex (an index outside the buffer stores nothing).
Stored(count, desc) ==
    [i \in DOMAIN count |->
        count[i] + Cardinality({c \in TileCells(desc) : CbIndex(desc, c[1], c[2]) + 1 = i})]

WorkerCopy(k) ==
    /\ workers[k].pc = "copy"
    /\ color_buffer' = Copied(color_buffer, workers[k].desc, workers[k].temp_color_buffer)
    /\ writes' = Stored(writes, workers[k].desc)
    /\ workers' = [workers EXCEPT ![k].pc = "send"]
    /\ UNCHANGED <<config, kernel, pc, lock_holders, threads_descryptors, next_thread,
                   threads, channel, finished_threads, reported, joined, image>>

\* Line 225: finishing_sender.send(id).unwrap()
WorkerSend(k) ==
    /\ workers[k].pc = "send"
    /\ channel' = Append(channel, workers[k].id)
    /\ workers' = [workers EXCEPT ![k].pc = "return", ![k].sent = @ + 1]
    /\ UNCHANGED <<config, kernel, writes, pc, color_buffer, lock_holders, threads_descryptors, next_thread,
                   threads, finished_threads, reported, joined, image>>

\* Variant of WorkerReturn: the thread ends and the guard is never dropped.
WorkerReturnLeak(k) ==
    /\ workers[k].pc = "return"
    /\ workers' = [workers EXCEPT ![k].pc = "done"]
    /\ UNCHANGED <<config, kernel, writes, pc, color_buffer, lock_holders, threads_descryptors,
                   next_thread, threads, channel, finished_threads, reported, joined, image>>

\* Line 226: the guard cb is dropped when the function returns; the thread ends.
WorkerReturn(k) ==
    /\ workers[k].pc = "return"
    /\ lock_holders' = lock_holders \ {k}
    /\ workers' = [workers EXCEPT ![k].pc = "done"]
    /\ UNCHANGED <<config, kernel, writes, pc, color_buffer, threads_descryptors, next_thread,
                   threads, channel, finished_threads, reported, joined, image>>

Worker(k) ==
    \/ WorkerRender(k)
    \/ WorkerLock(k)
    \/ WorkerCopy(k)
    \/ WorkerSend(k)
    \/ WorkerReturn(k)

Main ==
    \/ FillDescryptors
    \/ SpawnInitial
    \/ MainRecv
    \/ MainLoopExit
    \/ MainJoin
    \/ MainLock
    \/ MainSave

Next ==
    \/ Main
    \/ \E k \in 1..Len(workers) : Worker(k)

Spec == Init /\ [][Next]_vars

\* ------------------------------------------------------------- escape-time loop
\* Real is f32. The loop is modelled on coordinates with integer parts: while
\* the loop runs |temp| <= 2, so every value computed is an integer below
\* 2^24 in magnitude, which f32 holds and computes exactly.

\* Complex::squared
squared(z) == [r |-> z.r * z.r - z.i * z.i, i |-> 2 * z.r * z.i]

\* Complex::add
add(z, rhs) == [r |-> z.r + rhs.r, i |-> z.i + rhs.i]

\* Variant of LengthWithin: a strict comparison.
LengthBelow(z, max) == z.r * z.r + z.i * z.i < max * max

\* z.length() <= max: length() is sqrt(r*r + i*i), and on an integer n the
\* correctly rounded sqrt(n) is at most max exactly when n <= max*max.
LengthWithin(z, max) == z.r * z.r + z.i * z.i <= max * max

\* Line 206: the condition of the while loop.
EscapeCond == LengthWithin(temp, MAX_LENGTH) /\ iterations < MAX_ITERATIONS

\* Lines 207-208: one iteration of the loop.
EscapeStep ==
    /\ EscapeCond
    /\ temp' = add(squared(temp), pos)
    /\ iterations' = iterations + 1
    /\ orbit' = Append(orbit, temp')
    /\ UNCHANGED <<config, pos, writes, pc, color_buffer, lock_holders, threads_descryptors,
                   next_thread, threads, workers, channel, finished_threads, reported,
                   joined, image>>

\* One sample at each coordinate of the grid, before the loop.
InitEscape ==
    /\ BUFFER_WIDTH = 0
    /\ BUFFER_HEIGHT = 0
    /\ THREAD_WIDTH = 0
    /\ THREAD_HEIGHT = 0
    /\ THREAD_COUNT = 0
    /\ SAMPLE_COUNT = 0
    /\ pc = "start"
    /\ color_buffer = <<>>
    /\ lock_holders = {}
    /\ threads_descryptors = <<>>
    /\ next_thread = 0
    /\ threads = <<>>
    /\ workers = <<>>
    /\ channel = <<>>
    /\ finished_threads = 0
    /\ reported = <<0>>
    /\ joined = 0
    /\ image = <<>>
    /\ writes = <<>>
    /\ pos \in [r : (0 - MaxCoord)..MaxCoord, i : (0 - MaxCoord)..MaxCoord]
    /\ InitKernel

\* The escape-time loop alone.
SpecEscape == InitEscape /\ [][EscapeStep]_vars

\* A panic inside thread_worker before line 225: in the sampling loops
\* (lines 187-215), or in the copy loop while the guard is held (lines
\* 219-223). The guard is released by unwinding and the mutex is poisoned.
WorkerFail(k) ==
    /\ workers[k].pc \in {"render", "copy"}
    /\ workers' = [workers EXCEPT ![k].pc = IF k \in lock_holders THEN "poisoned" ELSE "panicked"]
    /\ lock_holders' = lock_holders \ {k}
    /\ UNCHANGED <<config, kernel, writes, pc, color_buffer, threads_descryptors, next_thread,
                   threads, channel, finished_threads, reported, joined, image>>

FailNext ==
    \/ Next
    \/ \E k \in 1..Len(workers) : WorkerFail(k)

\* The render when worker threads may panic.
FailSpec == Init /\ [][FailNext]_vars

\* The partition loop alone, over every configuration within the bounds.
SpecPartition == InitPartition /\ [][FillDescryptors]_vars

\* The OS schedules every thread that can run.
FairSpec ==
    /\ Spec
    /\ WF_vars(Main)
    /\ \A k \in 1..MaxTiles : WF_vars(k <= Len(workers) /\ Worker(k))

\* ------------------------------------------------------------- properties

\* All four extents of the configuration are at least 1.
ValidExtents ==
    /\ BUFFER_WIDTH >= 1
    /\ BUFFER_HEIGHT >= 1
    /\ THREAD_WIDTH >= 1
    /\ THREAD_HEIGHT >= 1

\* The partition loop has run to its end.
Partitioned == pc \notin {"start", "panicked"}

Tiles == DOMAIN threads_descryptors

\* Pixel (x, y) lies in the rectangle [offset, offset + thread_size) of desc.
InTile(desc, x, y) ==
    /\ desc.offset.x <= x
    /\ x < desc.offset.x + desc.thread_size.x
    /\ desc.offset.y <= y
    /\ y < desc.offset.y + desc.thread_size.y

NonEmpty(desc) == desc.thread_size.x >= 1 /\ desc.thread_size.y >= 1

\* Ceiling division, written without divide_roundup.
Ceil(n, d) == (n + d - 1) \div d

\* C1: with all extents >= 1, every pixel of the canvas lies inside the
\* rectangle of some generated tile (the tiles leave no gap).
C1_NoGap ==
    (Partitioned /\ ValidExtents) =>
        \A x \in 0..(BUFFER_WIDTH - 1), y \in 0..(BUFFER_HEIGHT - 1) :
            \E i \in Tiles : InTile(threads_descryptors[i], x, y)

\* C2: the tile at grid position (tx, ty) has offset (tx*tw, ty*th) and size
\* (min(tw, W - offset.x), min(th, H - offset.y)); so a last column of a
\* canvas whose width is no multiple of tw is W mod tw wide, and likewise for
\* the height.
C2_TileGeometry ==
    (Partitioned /\ ValidExtents) =>
        LET cols == Ceil(BUFFER_WIDTH, THREAD_WIDTH)
        IN  \A i \in Tiles :
                LET d == threads_descryptors[i]
                    tx == (i - 1) % cols
                    ty == (i - 1) \div cols
                IN  /\ d.offset.x = tx * THREAD_WIDTH
                    /\ d.offset.y = ty * THREAD_HEIGHT
                    /\ d.thread_size.x = min(THREAD_WIDTH, BUFFER_WIDTH - d.offset.x)
                    /\ d.thread_size.y = min(THREAD_HEIGHT, BUFFER_HEIGHT - d.offset.y)
                    /\ (tx = cols - 1 /\ BUFFER_WIDTH % THREAD_WIDTH # 0
                            => d.thread_size.x = BUFFER_WIDTH % THREAD_WIDTH)
                    /\ (ty = Ceil(BUFFER_HEIGHT, THREAD_HEIGHT) - 1
                            /\ BUFFER_HEIGHT % THREAD_HEIGHT # 0
                            => d.thread_size.y = BUFFER_HEIGHT % THREAD_HEIGHT)

\* C3: with all extents >= 1 the grid has ceil(W/tw) columns and ceil(H/th)
\* rows, and no tile has thread_size.x = 0 or thread_size.y = 0.
C3_NoEmptyTile ==
    (Partitioned /\ ValidExtents) =>
        /\ Len(threads_descryptors) =
               Ceil(BUFFER_WIDTH, THREAD_WIDTH) * Ceil(BUFFER_HEIGHT, THREAD_HEIGHT)
        /\ \A i \in Tiles : NonEmpty(threads_descryptors[i])

\* C4: with all extents >= 1, no two distinct tiles share a pixel, and no
\* tile extends past the right or the bottom edge of the canvas.
C4_DisjointInCanvas ==
    (Partitioned /\ ValidExtents) =>
        /\ \A i, j \in Tiles :
               i # j =>
                   ~ \E x \in 0..(BUFFER_WIDTH + MaxTile), y \in 0..(BUFFER_HEIGHT + MaxTile) :
                         /\ InTile(threads_descryptors[i], x, y)
                         /\ InTile(threads_descryptors[j], x, y)
        /\ \A i \in Tiles :
               LET d == threads_descryptors[i]
               IN  /\ d.offset.x + d.thread_size.x <= BUFFER_WIDTH
                   /\ d.offset.y + d.thread_size.y <= BUFFER_HEIGHT

\* Several tiles that hold pixels, one of them cut short at the canvas edge.
C4_Witness ==
    /\ Partitioned
    /\ ValidExtents
    /\ \E i, j \in Tiles :
           /\ i # j
           /\ NonEmpty(threads_descryptors[i])
           /\ NonEmpty(threads_descryptors[j])
           /\ threads_descryptors[j].thread_size.x < THREAD_WIDTH
           /\ threads_descryptors[j].offset.x > 0

Workers == DOMAIN workers

\* The workers that were handed descriptor number n (counted from 0).
DispatchedTo(n) == {k \in Workers : workers[k].tile = n}

\* Main has left the receive loop.
LeftLoop == pc \in {"join", "lock", "save", "done"}

\* Worker k has finished the copy loop of lines 219-223.
Committed(k) == workers[k].pc \in {"send", "return", "done"}

\* C5: for THREAD_COUNT >= 1 and any tile count, no descriptor is ever
\* dispatched twice and no worker ever sends twice; once main has left the
\* receive loop every descriptor was dispatched exactly once, every worker
\* has sent exactly one signal, and main has received as many as there are
\* tiles.
C5_DispatchComplete ==
    THREAD_COUNT >= 1 =>
        /\ \A n \in 0..(Len(threads_descryptors) - 1) : Cardinality(DispatchedTo(n)) <= 1
        /\ \A k \in Workers :
               /\ workers[k].tile \in 0..(Len(threads_descryptors) - 1)
               /\ workers[k].sent <= 1
               /\ (workers[k].pc \in {"return", "done"} => workers[k].sent = 1)
        /\ LeftLoop =>
               /\ \A n \in 0..(Len(threads_descryptors) - 1) : Cardinality(DispatchedTo(n)) = 1
               /\ \A k \in Workers : workers[k].sent = 1
               /\ finished_threads = Len(threads_descryptors)
               /\ channel = <<>>

\* Main is past the loop of a render with more tiles than worker slots.
C5_Witness ==
    /\ LeftLoop
    /\ THREAD_COUNT = 2
    /\ Len(threads_descryptors) = 4
    /\ finished_threads = 4

\* Main is in recv() with nothing to receive.
BlockedOnChannel ==
    /\ pc = "loop"
    /\ LoopCond(finished_threads, Len(threads_descryptors))
    /\ channel = <<>>

\* C6: for THREAD_COUNT >= 1 and any tile count (0 included), under fair
\* scheduling a render whose descriptors were built runs to the end of main
\* (past the loop, the joins and save_image); and main is never blocked on
\* the channel unless some dispatched worker has still to send its signal.
C6_RunsToCompletion ==
    /\ [](THREAD_COUNT >= 1 /\ BlockedOnChannel => \E k \in Workers : workers[k].sent = 0)
    /\ ((THREAD_COUNT >= 1 /\ pc = "spawn") ~> (pc = "done"))

\* The end of a render in which slots were reused.
C6_Witness ==
    /\ pc = "done"
    /\ THREAD_COUNT >= 1
    /\ Len(threads_descryptors) > THREAD_COUNT
    /\ joined = THREAD_COUNT

\* A step taken while main holds the buffer for save_image leaves it unchanged.
BufferKept == pc \in {"save", "done"} => (color_buffer' = color_buffer)

\* C7: once main holds the buffer for save_image, every generated tile has a
\* worker that has finished its copy loop, and the buffer never changes again.
C7_EncodeAfterCommit ==
    /\ [](pc \in {"save", "done"} =>
             \A n \in 0..(Len(threads_descryptors) - 1) :
                 \E k \in DispatchedTo(n) : Committed(k))
    /\ [][BufferKept]_vars

\* Main holds the buffer after a render of several tiles that hold pixels.
C7_Witness ==
    /\ pc = "save"
    /\ 0 \in lock_holders
    /\ Len(threads_descryptors) >= 3
    /\ \E i \in Tiles : NonEmpty(threads_descryptors[i])
    /\ \E i \in 1..Len(color_buffer) : color_buffer[i] # ColorNew

\* A step that changes the buffer is the copy loop of the worker holding the mutex.
WriteUnderLock ==
    (color_buffer' # color_buffer) =>
        \E k \in Workers :
            /\ lock_holders = {k}
            /\ workers[k].pc = "copy"
            /\ workers'[k].pc = "send"

\* C8: at most one thread holds the buffer's mutex, and every step that
\* changes the buffer is the copy loop of a worker that holds it.
C8_MutualExclusion ==
    /\ [](Cardinality(lock_holders) <= 1)
    /\ [][WriteUnderLock]_vars

\* A worker has written its pixels under the lock while another waits for it.
C8_Witness ==
    \E k, j \in Workers :
        /\ k # j
        /\ lock_holders = {k}
        /\ workers[k].pc = "send"
        /\ NonEmpty(workers[k].desc)
        /\ workers[j].pc = "lock"

\* The buffer a render of this configuration must end with, whatever the
\* schedule: the pixels of every tile hold their colour, the rest are untouched.
ExpectedBuffer ==
    [i \in 1..(BUFFER_WIDTH * BUFFER_HEIGHT) |->
        LET px == (i - 1) % BUFFER_WIDTH
            py == (i - 1) \div BUFFER_WIDTH
        IN  IF \E t \in Tiles : InTile(threads_descryptors[t], px, py)
            THEN IF SAMPLE_COUNT = 0 THEN ColorNaN ELSE SampleColor(px, py, BUFFER_WIDTH)
            ELSE ColorNew]

\* C9: with the colour of every pixel fixed, every schedule of workers,
\* commits and completions ends with the same buffer, and save_image reads it.
C9_ScheduleIndependent ==
    pc = "done" => (color_buffer = ExpectedBuffer /\ image = ExpectedBuffer)

\* The end of a render where two slots committed several tiles that hold pixels.
C9_Witness ==
    /\ pc = "done"
    /\ THREAD_COUNT = 2
    /\ SAMPLE_COUNT >= 1
    /\ \E i, j \in Tiles :
           /\ i # j
           /\ NonEmpty(threads_descryptors[i])
           /\ NonEmpty(threads_descryptors[j])

\* A zero canvas extent, tile extent, worker count or sample count.
Degenerate ==
    \/ BUFFER_WIDTH = 0
    \/ BUFFER_HEIGHT = 0
    \/ THREAD_WIDTH = 0
    \/ THREAD_HEIGHT = 0
    \/ THREAD_COUNT = 0
    \/ SAMPLE_COUNT = 0

\* C10: a degenerate configuration is rejected before any worker is spawned:
\* no worker is ever started, main never waits on the channel, and nothing is
\* rendered or handed to save_image.
C10_DegenerateRejected ==
    Degenerate =>
        /\ workers = <<>>
        /\ ~BlockedOnChannel
        /\ pc \notin {"save", "done"}

\* Main waits in recv() and no thread is left that will ever send.
WaitingForever ==
    /\ BlockedOnChannel
    /\ \A k \in Workers : workers[k].sent = 1 \/ Failed(k)

\* C11: when a worker has failed before sending its signal, main does not
\* wait for the missing signal for ever, the failed tile is not dispatched a
\* second time, and the buffer is not handed to save_image.
C11_WorkerFailureIsFatal ==
    (\E k \in Workers : Failed(k)) =>
        /\ ~WaitingForever
        /\ \A n \in 0..(Len(threads_descryptors) - 1) : Cardinality(DispatchedTo(n)) <= 1
        /\ pc \notin {"save", "done"}

\* The workers that were dispatched and have not sent their signal.
InFlight == {k \in Workers : workers[k].sent = 0}

\* C12: whatever the tile count, at most THREAD_COUNT dispatched workers have
\* still to send their signal: (tiles dispatched) - (signals sent) <=
\* THREAD_COUNT, and signals received <= tiles dispatched <= tile count.
C12_PoolBounded ==
    /\ Cardinality(InFlight) <= THREAD_COUNT
    /\ next_thread = Len(workers)
    /\ next_thread - (finished_threads + Len(channel)) <= THREAD_COUNT
    /\ finished_threads <= next_thread
    /\ next_thread <= Len(threads_descryptors)

\* Every slot is busy again after a slot was refilled.
C12_Witness ==
    /\ THREAD_COUNT = 2
    /\ Cardinality(InFlight) = 2
    /\ finished_threads >= 1
    /\ Len(threads_descryptors) = 4

\* C13: every value handed to print_progress lies in 0..100, the values never
\* decrease, there is one per received signal (after the initial 0), and the
\* value reported for the last tile is exactly 100.
C13_ProgressRange ==
    /\ \A i \in DOMAIN reported : reported[i] >= 0 /\ reported[i] <= 100
    /\ \A i, j \in DOMAIN reported : i < j => reported[i] <= reported[j]
    /\ Len(reported) = finished_threads + 1
    /\ (LeftLoop /\ Len(threads_descryptors) > 0) => reported[Len(reported)] = 100

\* The values reported over a render of three tiles.
C13_Witness ==
    /\ LeftLoop
    /\ reported = <<0, 33, 66, 100>>

\* The loop of line 206 has ended; iterations is the count it returns.
EscapeDone == ~EscapeCond

NormSquared(z) == z.r * z.r + z.i * z.i

\* C14: the count never exceeds MAX_ITERATIONS; the values of temp are the
\* standard iteration z0 = 0, z_{k+1} = z_k^2 + c; no value before the
\* returned count k has |z| > MAX_LENGTH, and the loop ends with k =
\* MAX_ITERATIONS or |z_k| > MAX_LENGTH, so k is the first escape or the
\* maximum. For c = 0 and c = -1 it returns MAX_ITERATIONS, for c = 1+1i it
\* stops within 5 steps.
C14_EscapeCount ==
    /\ iterations <= MAX_ITERATIONS
    /\ Len(orbit) = iterations + 1
    /\ orbit[1] = [r |-> 0, i |-> 0]
    /\ \A j \in 1..iterations :
           /\ orbit[j + 1].r = orbit[j].r * orbit[j].r - orbit[j].i * orbit[j].i + pos.r
           /\ orbit[j + 1].i = 2 * orbit[j].r * orbit[j].i + pos.i
           /\ NormSquared(orbit[j]) <= MAX_LENGTH * MAX_LENGTH
    /\ EscapeDone =>
           /\ \/ iterations = MAX_ITERATIONS
              \/ NormSquared(orbit[iterations + 1]) > MAX_LENGTH * MAX_LENGTH
           /\ pos = [r |-> 0, i |-> 0] => iterations = MAX_ITERATIONS
           /\ pos = [r |-> 0 - 1, i |-> 0] => iterations = MAX_ITERATIONS
           /\ pos = [r |-> 1, i |-> 1] => iterations <= 5

\* The loop has run to the maximum at c = -1.
C14_Witness ==
    /\ EscapeDone
    /\ pos = [r |-> 0 - 1, i |-> 0]
    /\ iterations = MAX_ITERATIONS
    /\ temp = [r |-> 0, i |-> 0]

\* The descriptors (counted from 0) no worker was handed yet.
Undispatched == {n \in 0..(Len(threads_descryptors) - 1) : DispatchedTo(n) = {}}

\* min(tile count, THREAD_COUNT), written out.
FirstWave ==
    IF Len(threads_descryptors) < THREAD_COUNT THEN Len(threads_descryptors) ELSE THREAD_COUNT

\* A step that starts a worker starts one, on the lowest descriptor not yet
\* dispatched: in the initial loop in the slot of the same number, afterwards
\* only together with the receipt of a signal and in the slot that signal
\* names. A signal received when no descriptor is left starts no worker.
DispatchRule ==
    /\ Len(workers') # Len(workers) =>
           LET new == workers'[Len(workers')]
           IN  /\ Len(workers') = Len(workers) + 1
               /\ new.tile \in Undispatched
               /\ \A n \in Undispatched : new.tile <= n
               /\ IF pc = "spawn"
                  THEN new.id = new.tile /\ new.tile < FirstWave
                  ELSE /\ pc = "loop"
                       /\ channel # <<>>
                       /\ new.id = Head(channel)
                       /\ finished_threads' = finished_threads + 1
    /\ (finished_threads' # finished_threads /\ Undispatched = {}) => workers' = workers

\* C15: when main enters the receive loop it has started min(tile count,
\* THREAD_COUNT) workers, slot i on tile i; every later worker is started by a
\* received signal, on the lowest tile not yet dispatched and in the slot the
\* signal carries; with no tile left a received signal starts no worker.
C15_DispatchRule ==
    /\ []((pc = "loop" /\ finished_threads = 0) => Len(workers) = FirstWave)
    /\ [](pc \notin {"start", "spawn", "panicked"} =>
             \A k \in 1..FirstWave : workers[k].tile = k - 1 /\ workers[k].id = k - 1)
    /\ [][DispatchRule]_vars

\* Slot 1 signalled first and was given the third tile.
C15_Witness ==
    /\ pc = "loop"
    /\ THREAD_COUNT = 2
    /\ Len(workers) = 3
    /\ workers[3].id = 1
    /\ workers[3].tile = 2
    /\ workers[1].sent = 0

\* C16: no two workers that have still to signal carry the same slot id;
\* every slot id carried by a worker or waiting in the channel is an index of
\* the handle vector, below min(tile count, THREAD_COUNT); and the handle a
\* waiting id will replace is that of a worker that has signalled.
C16_SlotBinding ==
    /\ \A k, j \in InFlight : k # j => workers[k].id # workers[j].id
    /\ \A k \in Workers :
           /\ workers[k].id >= 0
           /\ workers[k].id < Len(threads)
           /\ workers[k].id < FirstWave
    /\ \A i \in DOMAIN channel :
           /\ channel[i] >= 0
           /\ channel[i] < Len(threads)
           /\ channel[i] < FirstWave
           /\ workers[threads[channel[i] + 1]].sent = 1

\* The id of slot 1 waits in the channel, to be given a tile, while slot 0 works.
C16_Witness ==
    /\ pc = "loop"
    /\ channel = <<1>>
    /\ next_thread < Len(threads_descryptors)
    /\ \E k \in InFlight : workers[k].id = 0

\* C17: once a worker has sent its signal, every pixel of its tile's
\* rectangle holds in the shared buffer the colour the worker computed for it.
C17_SignalAfterCommit ==
    \A k \in Workers :
        workers[k].sent >= 1 =>
            LET d == workers[k].desc
            IN  \A x \in 0..(d.thread_size.x - 1), y \in 0..(d.thread_size.y - 1) :
                    LET px == x + d.offset.x
                        py == y + d.offset.y
                    IN  color_buffer[py * BUFFER_WIDTH + px + 1] = PixelColor(px, py, d)

\* The signal of a worker whose tile holds several rows waits in the channel.
C17_Witness ==
    \E k \in Workers :
        /\ workers[k].sent = 1
        /\ workers[k].desc.thread_size.y >= 2
        /\ workers[k].desc.thread_size.x >= 1
        /\ channel # <<>>
        /\ Head(channel) = workers[k].id
        /\ workers[k].pc = "return"

\* The step in which a worker ends its sampling loops changes nothing shared.
ComputeFrame ==
    \A k \in Workers :
        (workers[k].pc = "render" /\ workers'[k].pc # "render") =>
            /\ color_buffer' = color_buffer
            /\ writes' = writes
            /\ lock_holders' = lock_holders
            /\ channel' = channel

\* A step that makes worker k a holder of the mutex finds all its pixels computed.
AcquireAfterCompute ==
    \A k \in Workers :
        (k \notin lock_holders /\ k \in lock_holders') =>
            /\ workers[k].pc = "lock"
            /\ workers[k].acquired = 0
            /\ workers[k].temp_color_buffer = Rendered(workers[k].desc)
            /\ Len(workers[k].temp_color_buffer) =
                   workers[k].desc.thread_size.x * workers[k].desc.thread_size.y

\* C18: while a worker computes its tile the shared buffer, the mutex and the
\* channel stay as they are; a worker acquires the mutex once per tile, not
\* while it computes, and only after all its pixels are computed.
C18_ComputeIsPrivate ==
    /\ [](\A k \in Workers :
              /\ workers[k].acquired <= 1
              /\ (workers[k].pc = "render" => workers[k].acquired = 0 /\ k \notin lock_holders)
              /\ (workers[k].pc \in {"copy", "send", "return", "done"} => workers[k].acquired = 1))
    /\ [][ComputeFrame /\ AcquireAfterCompute]_vars

\* A worker holds the mutex with its tile computed while another still computes.
C18_Witness ==
    \E k, j \in Workers :
        /\ workers[k].pc = "copy"
        /\ workers[k].acquired = 1
        /\ Len(workers[k].temp_color_buffer) >= 2
        /\ workers[j].pc = "render"
        /\ color_buffer = [i \in DOMAIN color_buffer |-> ColorNew]

\* The canvas pixel stored at position i of the buffer (positions from 1).
PixelX(i) == (i - 1) % BUFFER_WIDTH
PixelY(i) == (i - 1) \div BUFFER_WIDTH

\* C19: the indices a worker stores to in its copy loop are below W*H and
\* are pixels of its own tile's rectangle; no cell is ever stored to twice;
\* each cell was stored to exactly by the committed workers whose rectangle
\* holds it; and after the render every pixel of a tile was stored to once.
C19_WritesOwnTileOnce ==
    /\ \A k \in Workers :
           workers[k].pc = "copy" =>
               LET d == workers[k].desc
               IN  \A x \in 0..(d.thread_size.x - 1), y \in 0..(d.thread_size.y - 1) :
                       LET idx == (y + d.offset.y) * BUFFER_WIDTH + (x + d.offset.x)
                       IN  /\ idx < BUFFER_WIDTH * BUFFER_HEIGHT
                           /\ InTile(d, PixelX(idx + 1), PixelY(idx + 1))
    /\ \A i \in DOMAIN writes :
           /\ writes[i] <= 1
           /\ writes[i] = Cardinality({k \in Workers :
                                          /\ Committed(k)
                                          /\ InTile(workers[k].desc, PixelX(i), PixelY(i))})
    /\ LeftLoop =>
           \A i \in DOMAIN writes :
               writes[i] = IF \E t \in Tiles : InTile(threads_descryptors[t], PixelX(i), PixelY(i))
                           THEN 1 ELSE 0

\* The end of a render of several tiles that hold pixels, away from the origin.
C19_Witness ==
    /\ pc = "done"
    /\ \E i \in DOMAIN writes : writes[i] = 1 /\ PixelX(i) > 0 /\ PixelY(i) > 0
    /\ \E t, u \in Tiles :
           /\ t # u
           /\ NonEmpty(threads_descryptors[t])
           /\ NonEmpty(threads_descryptors[u])
           /\ threads_descryptors[u].offset.y > 0

\* C20: a worker still holds the mutex when it has sent its signal; every
\* thread that holds the mutex releases it, joined or not, and main's lock()
\* before save_image returns: from some point on nobody holds the mutex and
\* main is not waiting for it. (A thread acquires the mutex at most once, so
\* a holder that is no holder in the end has released it; main leaves its
\* lock() only by acquiring the mutex.)
C20_LockReleased ==
    /\ [](\A k \in Workers : workers[k].pc = "return" => k \in lock_holders)
    /\ <>[](lock_holders = {} /\ pc # "lock")

\* A worker whose handle was replaced, so that it is never joined, still
\* holds the mutex after its signal was received.
C20_Witness ==
    /\ pc = "loop"
    /\ \E k \in lock_holders :
           /\ k > 0
           /\ \A i \in DOMAIN threads : threads[i] # k
           /\ workers[k].pc = "return"
           /\ \E j \in Workers : workers[j].id = workers[k].id /\ workers[j].pc = "lock"

====
